---------------------------- MODULE Spec2Model ----------------------------
(***************************************************************************)
(* Model of package timehelper (interval.go): the Interval value type,     *)
(* Parse (text -> Interval), Interval.String (Interval -> text), the       *)
(* partial-order comparisons, the Normal* parts, Add, Sub, Mul, Div and    *)
(* Duration.                                                               *)
(*                                                                         *)
(* A Go string is modelled as a sequence of one-character strings.         *)
(* Interval.Months and Interval.Days are int32 and keep their width.       *)
(* Interval.Seconds is a float64.  For Parse, String, the comparisons and  *)
(* Normal* the model covers its finite whole-number values, which float64  *)
(* holds exactly far beyond the magnitudes used there, as integers.  For   *)
(* Add, Sub, Mul, Div and Duration it is a binary floating-point number    *)
(* with a 53-bit significand, every operation rounded to nearest, ties to  *)
(* even; NaN, the infinities and the exponent range are not modelled.      *)
(***************************************************************************)
EXTENDS Integers, Sequences, FiniteSets, TLC

(***************************************************************************)
(* int32 arithmetic                                                        *)
(***************************************************************************)
MaxInt32 == 2147483647
MinInt32 == -MaxInt32 - 1
Int32Base == 65536
Int32Half == 32768

\* An exact integer of up to 48 bits as two limbs, value = hi * 2^16 + lo.
ToBig(x) == [hi |-> x \div Int32Base, lo |-> x % Int32Base]

BigNorm(hi, lo) == [hi |-> hi + (lo \div Int32Base), lo |-> lo % Int32Base]

BigAdd(x, y) == BigNorm(x.hi + y.hi, x.lo + y.lo)

BigSub(x, y) == BigNorm(x.hi - y.hi, x.lo - y.lo)

\* k is a small factor (|k| <= 4096).
BigMulK(x, k) == BigNorm(x.hi * k, x.lo * k)

BigFits32(x) == x.hi >= -Int32Half /\ x.hi < Int32Half

\* Conversion to int32: the low 32 bits, read as a signed number.
BigWrap32(x) == (((x.hi + Int32Half) % Int32Base) - Int32Half) * Int32Base + x.lo

\* Go's int32 `*`, `+`, `-`: the exact result wrapped modulo 2^32.
Mul32(x, k) == BigWrap32(BigMulK(ToBig(x), k))

\* An addition that stops at the ends of int32 instead of wrapping.
Add32Saturating(x, y) ==
    LET s == BigAdd(ToBig(x), ToBig(y))
    IN  IF BigFits32(s) THEN BigWrap32(s)
        ELSE IF s.hi < 0 THEN MinInt32 ELSE MaxInt32

Add32(x, y) == BigWrap32(BigAdd(ToBig(x), ToBig(y)))

Sub32(x, y) == BigWrap32(BigSub(ToBig(x), ToBig(y)))

\* Go's integer `/` and `%` (d > 0): the quotient truncates toward zero and the
\* remainder takes the sign of the dividend.
TruncDiv(x, d) ==
    IF x >= 0 \/ x % d = 0 THEN x \div d ELSE (x \div d) + 1

TruncRem(x, d) == x - d * TruncDiv(x, d)

(***************************************************************************)
(* strings                                                                 *)
(***************************************************************************)
DigitChars == <<"0", "1", "2", "3", "4", "5", "6", "7", "8", "9">>

DigitChar(d) == DigitChars[d + 1]

IsDigit(c) == \E d \in 0..9 : DigitChars[d + 1] = c

DigitVal(c) == CHOOSE d \in 0..9 : DigitChars[d + 1] = c

AllDigits(t) == \A k \in 1..Len(t) : IsDigit(t[k])

\* s[p .. q-1]
Slice(s, p, q) == SubSeq(s, p, q - 1)

\* s[p:] starts with the literal t
HasAt(s, p, t) ==
    /\ p + Len(t) - 1 <= Len(s)
    /\ \A k \in 1..Len(t) : s[p + k - 1] = t[k]

Rep(c, n) == [k \in 1..n |-> c]

RECURSIVE FormatNat(_)
FormatNat(n) ==
    IF n < 10 THEN <<DigitChar(n)>>
    ELSE FormatNat(n \div 10) \o <<DigitChar(n % 10)>>

RECURSIVE FormatNegDigits(_)
FormatNegDigits(x) ==
    IF x > -10 THEN <<DigitChar(-x)>>
    ELSE FormatNegDigits(TruncDiv(x, 10)) \o <<DigitChar(-TruncRem(x, 10))>>

\* strconv.FormatInt(x, 10)
FormatInt(x) ==
    IF x >= 0 THEN FormatNat(x) ELSE <<"-">> \o FormatNegDigits(x)


(***************************************************************************)
(* strconv.ParseInt(s, 10, bitSize) and strconv.ParseFloat(s, 64), as      *)
(* Parse calls them.  Both return [err |-> BOOLEAN, val |-> number].       *)
(***************************************************************************)
RECURSIVE StripZeros(_)
StripZeros(t) ==
    IF Len(t) > 1 /\ t[1] = "0" THEN StripZeros(Tail(t)) ELSE t

\* Lexicographic t <= u for digit sequences of the same length.
RECURSIVE DigitsLE(_, _)
DigitsLE(t, u) ==
    IF t = <<>> THEN TRUE
    ELSE IF DigitVal(t[1]) # DigitVal(u[1]) THEN DigitVal(t[1]) < DigitVal(u[1])
    ELSE DigitsLE(Tail(t), Tail(u))

\* The magnitude t (digits, no leading zeros) is at most the magnitude lim.
MagnitudeLE(t, lim) ==
    \/ Len(t) < Len(lim)
    \/ Len(t) = Len(lim) /\ DigitsLE(t, lim)

MaxInt64Digits ==
    <<"9", "2", "2", "3", "3", "7", "2", "0", "3", "6",
      "8", "5", "4", "7", "7", "5", "8", "0", "7">>

MinInt64Digits ==
    <<"9", "2", "2", "3", "3", "7", "2", "0", "3", "6",
      "8", "5", "4", "7", "7", "5", "8", "0", "8">>

\* The largest magnitude a bitSize-bit signed integer holds, by sign.
IntLimitDigits(bitSize, neg) ==
    IF bitSize = 32
    THEN (IF neg THEN FormatNegDigits(MinInt32) ELSE FormatNat(MaxInt32))
    ELSE (IF neg THEN MinInt64Digits ELSE MaxInt64Digits)

\* The value of a digit sequence, accumulated on the negative side so that
\* -2^31 is reached without passing 2^31.
RECURSIVE NegValue(_, _)
NegValue(t, acc) ==
    IF t = <<>> THEN acc
    ELSE NegValue(Tail(t), acc * 10 - DigitVal(t[1]))

\* An in-range value a model integer can hold: always for bitSize 32, and up
\* to 9 digits for bitSize 64 (longer in-range hour and minute numbers are
\* outside the model and never offered to it).
IntValue(t, neg) ==
    CASE Len(t) <= 10 -> IF neg THEN NegValue(t, 0) ELSE -NegValue(t, 0)

ParseInt(str, bitSize) ==
    LET signed == str # <<>> /\ str[1] \in {"+", "-"}
        neg    == str # <<>> /\ str[1] = "-"
        body   == IF signed THEN Tail(str) ELSE str
        mag    == StripZeros(body)
    IN  IF body = <<>> \/ ~AllDigits(body)
        THEN [err |-> TRUE, val |-> 0]                       \* ErrSyntax
        ELSE IF ~MagnitudeLE(mag, IntLimitDigits(bitSize, neg))
        THEN [err |-> TRUE, val |-> 0]                       \* ErrRange
        ELSE [err |-> FALSE, val |-> IntValue(mag, neg)]

RECURSIVE Pow10(_)
Pow10(n) == IF n = 0 THEN 1 ELSE 10 * Pow10(n - 1)

\* Number of decimal digits above which every integer exceeds the largest
\* float64 (1.797...e308).
MaxFloatDigits == 309

\* strconv.ParseFloat on the strings the seconds group of re can capture:
\*   digits                 a whole number;
\*   digits "." digits      a decimal number (the model holds it when the
\*                          fraction is zero);
\*   digits ("e"|"E") digits  mantissa * 10^exponent;
\*   anything else          ErrSyntax.
\* A whole number of more than MaxFloatDigits digits is ErrRange.
ParseFloat(str) ==
    LET seps == {k \in 1..Len(str) : ~IsDigit(str[k])}
    IN  IF str = <<>> THEN [err |-> TRUE, val |-> 0]
        ELSE IF seps = {}
        THEN LET mag == StripZeros(str)
             IN  IF Len(mag) > MaxFloatDigits
                 THEN [err |-> TRUE, val |-> 0]              \* ErrRange
                 ELSE [err |-> FALSE, val |-> IntValue(mag, FALSE)]
        ELSE IF Cardinality(seps) > 1 THEN [err |-> TRUE, val |-> 0]
        ELSE LET k    == CHOOSE x \in seps : TRUE
                 int  == Slice(str, 1, k)
                 frac == Slice(str, k + 1, Len(str) + 1)
             IN  IF str[k] = "."
                 THEN CASE frac = Rep("0", Len(frac)) ->
                          [err |-> FALSE, val |-> IntValue(StripZeros(int), FALSE)]
                 ELSE IF str[k] \in {"e", "E"} /\ int # <<>> /\ frac # <<>>
                 THEN CASE Len(StripZeros(int)) + IntValue(StripZeros(frac), FALSE) <= 9 ->
                          [err |-> FALSE,
                           val |-> IntValue(StripZeros(int), FALSE)
                                     * Pow10(IntValue(StripZeros(frac), FALSE))]
                 ELSE [err |-> TRUE, val |-> 0]              \* ErrSyntax

(***************************************************************************)
(* re: the regular expression of Parse, matched as Go's regexp does        *)
(* (leftmost-first: an optional item is tried present before absent).      *)
(*                                                                         *)
(*  ^(?:([+-]?[0-9]+) year)? ?(?:([+-]?[0-9]+) mons)? ?                    *)
(*   (?:([+-]?[0-9]+) days)? ?                                             *)
(*   (?:([+-])?([0-9]+):([0-9]+):([0-9]+(?:,|.[0-9]+)?))?$                 *)
(***************************************************************************)
NoMatch == [ok |-> FALSE, parts |-> <<>>]

\* End of the longest run of digits starting at p (p itself when none).
RECURSIVE DigitsEnd(_, _)
DigitsEnd(s, p) ==
    IF p <= Len(s) /\ IsDigit(s[p]) THEN DigitsEnd(s, p + 1) ELSE p

\* (?:([+-]?[0-9]+) <word>) at p: the capture and the position after it.
UnitGroup(s, p, word) ==
    LET p1 == IF p <= Len(s) /\ s[p] \in {"+", "-"} THEN p + 1 ELSE p
        q  == DigitsEnd(s, p1)
    IN  IF q > p1 /\ HasAt(s, q, <<" ">> \o word)
        THEN [ok |-> TRUE, cap |-> Slice(s, p, q), next |-> q + 1 + Len(word)]
        ELSE [ok |-> FALSE, cap |-> <<>>, next |-> p]

\* [0-9]+(?:,|.[0-9]+)? matching all of r ('.' is any character).
SecondsShape(r) ==
    \E k \in 1..Len(r) :
        /\ AllDigits(Slice(r, 1, k + 1))
        /\ \/ k = Len(r)
           \/ k + 1 = Len(r) /\ r[k + 1] = ","
           \/ k + 2 <= Len(r) /\ AllDigits(Slice(r, k + 2, Len(r) + 1))

\* (?:([+-])?([0-9]+):([0-9]+):([0-9]+(?:,|.[0-9]+)?))$ at p: the time group
\* is the last item, so it has to take the rest of the string.
TimeGroup(s, p) ==
    LET signed == p <= Len(s) /\ s[p] \in {"+", "-"}
        p1 == IF signed THEN p + 1 ELSE p
        q1 == DigitsEnd(s, p1)
        q2 == DigitsEnd(s, q1 + 1)
        rest == Slice(s, q2 + 1, Len(s) + 1)
    IN  IF /\ q1 > p1 /\ HasAt(s, q1, <<":">>)
           /\ q2 > q1 + 1 /\ HasAt(s, q2, <<":">>)
           /\ SecondsShape(rest)
        THEN [ok |-> TRUE,
              caps |-> << IF signed THEN <<s[p]>> ELSE <<>>,
                          Slice(s, p1, q1), Slice(s, q1 + 1, q2), rest >>]
        ELSE [ok |-> FALSE, caps |-> << <<>>, <<>>, <<>>, <<>> >>]

UnitWord(k) ==
    CASE k = 1 -> <<"y", "e", "a", "r">>
      [] k = 3 -> <<"m", "o", "n", "s">>
      [] k = 5 -> <<"d", "a", "y", "s">>

\* Items 1..7 of re from position p on: year, ' ?', mons, ' ?', days, ' ?',
\* time.  caps holds the captures of the items already matched.
RECURSIVE MatchFrom(_, _, _, _)
MatchFrom(s, p, k, caps) ==
    IF k = 7
    THEN LET t == TimeGroup(s, p)
         IN  IF t.ok THEN [ok |-> TRUE, parts |-> caps \o t.caps]
             ELSE IF p = Len(s) + 1
             THEN [ok |-> TRUE, parts |-> caps \o << <<>>, <<>>, <<>>, <<>> >>]
             ELSE NoMatch
    ELSE IF k \in {2, 4, 6}
    THEN LET taken == IF p <= Len(s) /\ s[p] = " "
                      THEN MatchFrom(s, p + 1, k + 1, caps) ELSE NoMatch
         IN  IF taken.ok THEN taken ELSE MatchFrom(s, p, k + 1, caps)
    ELSE LET g == UnitGroup(s, p, UnitWord(k))
             taken == IF g.ok
                      THEN MatchFrom(s, g.next, k + 1, Append(caps, g.cap))
                      ELSE NoMatch
         IN  IF taken.ok THEN taken
             ELSE MatchFrom(s, p, k + 1, Append(caps, <<>>))

\* re.FindStringSubmatch(s): parts[1..7] are the capture groups (parts[0],
\* the whole match, is s itself and is not kept).
FindStringSubmatch(s) == MatchFrom(s, 1, 1, <<>>)

(***************************************************************************)
(* Exact natural numbers of any size, for float64 and int64 arithmetic: a  *)
(* sequence of limbs, least significant first, value = SUM x[k] *          *)
(* LimbBase^(k-1), with no zero limb at the top (zero is <<>>).            *)
(***************************************************************************)
LimbBits == 15
LimbBase == 32768

RECURSIVE BnTrim(_)
BnTrim(x) ==
    IF x = <<>> THEN x
    ELSE IF x[Len(x)] = 0 THEN BnTrim(SubSeq(x, 1, Len(x) - 1)) ELSE x

RECURSIVE BnFromNat(_)
BnFromNat(v) ==
    IF v = 0 THEN <<>> ELSE <<v % LimbBase>> \o BnFromNat(v \div LimbBase)

BnLimb(x, k) == IF k <= Len(x) THEN x[k] ELSE 0

RECURSIVE BnAddC(_, _, _, _)
BnAddC(x, y, k, carry) ==
    IF k > Len(x) /\ k > Len(y)
    THEN IF carry = 0 THEN <<>> ELSE <<carry>>
    ELSE LET t == BnLimb(x, k) + BnLimb(y, k) + carry
         IN  <<t % LimbBase>> \o BnAddC(x, y, k + 1, t \div LimbBase)

BnAdd(x, y) ==
    IF x = <<>> THEN y ELSE IF y = <<>> THEN x ELSE BnAddC(x, y, 1, 0)

\* The magnitude of an int32, -2^31 included.
BnFromAbs(v) ==
    IF v >= 0 THEN BnFromNat(v) ELSE BnAdd(BnFromNat(-(v + 1)), <<1>>)

\* x - y for x >= y
RECURSIVE BnSubC(_, _, _, _)
BnSubC(x, y, k, borrow) ==
    IF k > Len(x) THEN <<>>
    ELSE LET t == BnLimb(x, k) - BnLimb(y, k) - borrow
         IN  <<t % LimbBase>> \o BnSubC(x, y, k + 1, IF t < 0 THEN 1 ELSE 0)

BnSub(x, y) == IF y = <<>> THEN x ELSE BnTrim(BnSubC(x, y, 1, 0))

\* -1, 0, 1 as x is below, equal to, above y
RECURSIVE BnCmpAt(_, _, _)
BnCmpAt(x, y, k) ==
    IF k = 0 THEN 0
    ELSE IF x[k] < y[k] THEN -1
    ELSE IF x[k] > y[k] THEN 1
    ELSE BnCmpAt(x, y, k - 1)

BnCmp(x, y) ==
    IF Len(x) < Len(y) THEN -1
    ELSE IF Len(x) > Len(y) THEN 1
    ELSE BnCmpAt(x, y, Len(x))

\* x * m for 0 <= m <= LimbBase
RECURSIVE BnMulSmallC(_, _, _, _)
BnMulSmallC(x, m, k, carry) ==
    IF k > Len(x)
    THEN IF carry = 0 THEN <<>> ELSE <<carry>>
    ELSE LET t == x[k] * m + carry
         IN  <<t % LimbBase>> \o BnMulSmallC(x, m, k + 1, t \div LimbBase)

BnMulSmall(x, m) ==
    IF x = <<>> \/ m = 0 THEN <<>> ELSE BnMulSmallC(x, m, 1, 0)

BnShiftLimbs(x, k) == IF x = <<>> THEN <<>> ELSE [j \in 1..k |-> 0] \o x

RECURSIVE BnMulAt(_, _, _)
BnMulAt(x, y, k) ==
    IF k > Len(y) THEN <<>>
    ELSE BnAdd(BnShiftLimbs(BnMulSmall(x, y[k]), k - 1), BnMulAt(x, y, k + 1))

BnMul(x, y) == IF x = <<>> \/ y = <<>> THEN <<>> ELSE BnMulAt(x, y, 1)

\* Quotient and remainder of x by m, 1 <= m <= LimbBase
RECURSIVE BnDivSmallAt(_, _, _, _)
BnDivSmallAt(x, m, k, rem) ==
    IF k = 0 THEN [q |-> <<>>, r |-> rem]
    ELSE LET t == rem * LimbBase + x[k]
             rest == BnDivSmallAt(x, m, k - 1, t % m)
         IN  [q |-> rest.q \o <<t \div m>>, r |-> rest.r]

BnDivSmall(x, m) ==
    LET d == BnDivSmallAt(x, m, Len(x), 0) IN [q |-> BnTrim(d.q), r |-> d.r]

\* x * 2^k and floor(x / 2^k)
BnShl(x, k) ==
    IF x = <<>> THEN <<>>
    ELSE BnShiftLimbs(BnMulSmall(x, 2 ^ (k % LimbBits)), k \div LimbBits)

BnShr(x, k) ==
    LET drop == k \div LimbBits
    IN  IF x = <<>> \/ drop >= Len(x) THEN <<>>
        ELSE BnDivSmall(SubSeq(x, drop + 1, Len(x)), 2 ^ (k % LimbBits)).q

\* x mod 2^k
BnLow(x, k) == BnSub(x, BnShl(BnShr(x, k), k))

BnBitLen(x) ==
    IF x = <<>> THEN 0
    ELSE LimbBits * (Len(x) - 1)
         + (CHOOSE j \in 1..LimbBits : 2 ^ (j - 1) <= x[Len(x)] /\ x[Len(x)] < 2 ^ j)

BnIsOdd(x) == x # <<>> /\ x[1] % 2 = 1

RECURSIVE BnTrailingZeros(_)
BnTrailingZeros(x) ==
    IF x[1] = 0 THEN LimbBits + BnTrailingZeros(Tail(x))
    ELSE CHOOSE j \in 0..(LimbBits - 1) : x[1] % (2 ^ (j + 1)) = 2 ^ j

\* One step of long division: the d with y * d <= r < y * (d + 1), for
\* r < y * LimbBase and y with its top bit set (top limb >= LimbBase / 2).
\* The estimate from the top limbs is d, d + 1 or d + 2 (Knuth, 4.3.1 D).
BnDigit(r, y) ==
    LET nn   == Len(y)
        top  == BnLimb(r, nn + 1) * LimbBase + BnLimb(r, nn)
        est  == top \div y[nn]
        qhat == IF est > LimbBase - 1 THEN LimbBase - 1 ELSE est
    IN  IF BnCmp(BnMulSmall(y, qhat), r) <= 0 THEN qhat
        ELSE IF BnCmp(BnMulSmall(y, qhat - 1), r) <= 0 THEN qhat - 1
        ELSE qhat - 2

\* Long division of x by y (top bit of y set), one limb of x at a time
\* from the top.
RECURSIVE BnDivModAt(_, _, _)
BnDivModAt(x, y, k) ==
    IF k > Len(x) THEN [q |-> <<>>, r |-> <<>>]
    ELSE LET h  == BnDivModAt(x, y, k + 1)
             r2 == BnTrim(<<x[k]>> \o h.r)
             d  == BnDigit(r2, y)
         IN  IF h.r = <<>> /\ x[k] = 0
             THEN [q |-> BnTrim(<<0>> \o h.q), r |-> <<>>]
             ELSE [q |-> BnTrim(<<d>> \o h.q), r |-> BnSub(r2, BnMulSmall(y, d))]

\* Quotient and remainder of x by y > 0; both are shifted left first so that
\* the top bit of the divisor is set, which leaves the quotient as it is.
BnDivMod(x, y) ==
    LET s == LimbBits * Len(y) - BnBitLen(y)
        d == BnDivModAt(BnShl(x, s), BnShl(y, s), 1)
    IN  [q |-> d.q, r |-> BnShr(d.r, s)]

\* The value of x < 2^31 as a number.
RECURSIVE BnToNat(_)
BnToNat(x) == IF x = <<>> THEN 0 ELSE x[1] + LimbBase * BnToNat(Tail(x))

(***************************************************************************)
(* int64: the sign and the magnitude of the number.  SAdd and SMul are     *)
(* exact; Int64Add and Int64Mul are Go's + and * on int64, the exact       *)
(* result wrapped modulo 2^64.                                             *)
(***************************************************************************)
Int64Zero == [neg |-> FALSE, mag |-> <<>>]

Signed(neg, mag) == IF mag = <<>> THEN Int64Zero ELSE [neg |-> neg, mag |-> mag]

SAdd(x, y) ==
    IF x.neg = y.neg THEN Signed(x.neg, BnAdd(x.mag, y.mag))
    ELSE IF BnCmp(x.mag, y.mag) >= 0 THEN Signed(x.neg, BnSub(x.mag, y.mag))
    ELSE Signed(y.neg, BnSub(y.mag, x.mag))

SMul(x, y) == Signed(x.neg # y.neg, BnMul(x.mag, y.mag))

TwoTo63 == BnShl(<<1>>, 63)
TwoTo64 == BnShl(<<1>>, 64)

MinInt64 == [neg |-> TRUE, mag |-> TwoTo63]
MaxInt64 == [neg |-> FALSE, mag |-> BnSub(TwoTo63, <<1>>)]

FitsInt64(x) ==
    BnCmp(x.mag, TwoTo63) < 0 \/ (x.neg /\ x.mag = TwoTo63)

\* The low 64 bits of x, read as a signed number.
Wrap64(x) ==
    LET low == BnLow(x.mag, 64)
        u   == IF x.neg /\ low # <<>> THEN BnSub(TwoTo64, low) ELSE low
    IN  IF BnCmp(u, TwoTo63) >= 0 THEN Signed(TRUE, BnSub(TwoTo64, u))
        ELSE Signed(FALSE, u)

Int64Add(x, y) == Wrap64(SAdd(x, y))

Int64Mul(x, y) == Wrap64(SMul(x, y))

\* int64(v) of an int32, uint8 or uint32 v
Int64(v) == Signed(v < 0, BnFromAbs(v))

(***************************************************************************)
(* float64.  A finite value is [neg, m, e], value = (-1)^neg * m * 2^e,    *)
(* with m odd and below 2^53, or m = <<>>, e = 0, neg = FALSE for zero     *)
(* (+0 and -0 compare equal and are not told apart).  Every operation is   *)
(* the exact result rounded to 53 significant bits, ties to even; the      *)
(* exponent range is not modelled (no overflow to Inf, no subnormals).     *)
(***************************************************************************)
MantissaBits == 53

FZero == [neg |-> FALSE, m |-> <<>>, e |-> 0]

FNorm(neg, m, e) ==
    IF m = <<>> THEN FZero
    ELSE LET tz == BnTrailingZeros(m)
         IN  [neg |-> neg, m |-> BnShr(m, tz), e |-> e + tz]

\* m * 2^e rounded to nearest, ties to even
FRound(neg, m, e) ==
    LET bl == BnBitLen(m) IN
    IF m = <<>> THEN FZero
    ELSE IF bl <= MantissaBits THEN FNorm(neg, m, e)
    ELSE LET sh   == bl - MantissaBits
             q    == BnShr(m, sh)
             c    == BnCmp(BnLow(m, sh), BnShl(<<1>>, sh - 1))
             up   == c > 0 \/ (c = 0 /\ BnIsOdd(q))
         IN  FNorm(neg, IF up THEN BnAdd(q, <<1>>) ELSE q, e + sh)

\* float64(v) of an int32 v, and of a whole number of any size
FromInt(v) == FNorm(v < 0, BnFromAbs(v), 0)

FNeg(x) == IF x.m = <<>> THEN x ELSE [x EXCEPT !.neg = ~x.neg]

\* x + y before rounding, as [neg, m, e] with m of any size
FSumExact(x, y) ==
    LET e0 == IF x.e < y.e THEN x.e ELSE y.e
        mx == BnShl(x.m, x.e - e0)
        my == BnShl(y.m, y.e - e0)
    IN  IF x.neg = y.neg THEN [neg |-> x.neg, m |-> BnAdd(mx, my), e |-> e0]
        ELSE IF BnCmp(mx, my) >= 0 THEN [neg |-> x.neg, m |-> BnSub(mx, my), e |-> e0]
        ELSE [neg |-> y.neg, m |-> BnSub(my, mx), e |-> e0]

FAdd(x, y) ==
    IF x.m = <<>> THEN y
    ELSE IF y.m = <<>> THEN x
    ELSE LET s == FSumExact(x, y) IN FRound(s.neg, s.m, s.e)

FSub(x, y) == FAdd(x, FNeg(y))

FMul(x, y) ==
    IF x.m = <<>> \/ y.m = <<>> THEN FZero
    ELSE FRound(x.neg # y.neg, BnMul(x.m, y.m), x.e + y.e)

\* x / y for y # 0: the quotient to at least 56 bits, with one more bit set
\* when the division left a remainder, then rounded.
FDiv(x, y) ==
    LET need == (MantissaBits + 3) + BnBitLen(y.m) - BnBitLen(x.m)
        s  == IF need > 0 THEN need ELSE 0
        d  == BnDivMod(BnShl(x.m, s), y.m)
        m2 == BnAdd(BnMulSmall(d.q, 2), IF d.r = <<>> THEN <<>> ELSE <<1>>)
    IN  IF x.m = <<>> THEN FZero
        ELSE FRound(x.neg # y.neg, m2, x.e - y.e - s - 1)

\* The whole part of x, toward zero, as a magnitude.
FTruncMag(x) == IF x.e >= 0 THEN BnShl(x.m, x.e) ELSE BnShr(x.m, -x.e)

FIsWhole(x) == x.e >= 0

(***************************************************************************)
(* Interval and its methods                                                *)
(***************************************************************************)
Interval(mo, d, sec) == [Months |-> mo, Days |-> d, Seconds |-> sec]

ZeroInterval == Interval(0, 0, 0)

NormalYears(i) == TruncDiv(i.Months, 12)

\* The remainder that is never negative, in place of Go's %.
NormalMonthsFloor(i) == i.Months % 12

NormalMonths(i) == TruncRem(i.Months, 12)

\* The floor, in place of the conversion.
NormalHoursFloor(i) == i.Seconds \div 3600

\* int32(i.Seconds / 3600): the conversion truncates toward zero.
NormalHours(i) == TruncDiv(i.Seconds, 3600)

\* int8((i.Seconds - float64(i.NormalHours())*3600) / 60)
NormalMinutes(i) == TruncDiv(i.Seconds - NormalHours(i) * 3600, 60)

\* math.Remainder(x, y) for whole x and y > 0: x - y*n, n the integer
\* nearest to x/y, the even one when x/y is halfway between two.
Remainder(x, y) ==
    LET q == x \div y
        m == x % y
    IN  IF 2 * m < y THEN m
        ELSE IF 2 * m > y THEN m - y
        ELSE IF q % 2 = 0 THEN m ELSE m - y

\* fmt.Sprintf("%02d", n)
Pad2(n) ==
    LET t == FormatInt(n) IN IF Len(t) < 2 THEN <<"0">> \o t ELSE t

\* strconv.FormatFloat(x, 'f', -1, 64) of a whole number
FormatFloat(x) == FormatInt(x)

YearWordPlural == <<" ", "y", "e", "a", "r", "s", " ">>

YearWord == <<" ", "y", "e", "a", "r", " ">>
MonsWord == <<" ", "m", "o", "n", "s", " ">>
DaysWord == <<" ", "d", "a", "y", "s", " ">>
ZeroTime == <<"0", "0", ":", "0", "0", ":", "0", "0">>

\* The seconds field of the time block: math.Remainder, FormatFloat and the
\* "0" put in front of a value below 10.
SecondsField(sec) ==
    LET s == Remainder(sec, 60)
        secStr == FormatFloat(s)
    IN  IF s < 10 THEN <<"0">> \o secStr ELSE secStr

\* func (i Interval) String() string
String(i0) ==
    IF i0.Months = 0 /\ i0.Days = 0 /\ i0.Seconds = 0 THEN ZeroTime
    ELSE
    LET y   == NormalYears(i0)
        mon == NormalMonths(i0)
        negativeTime == i0.Seconds < 0
        \* the receiver is a copy: i.Seconds = -i.Seconds changes the copy
        i   == IF negativeTime THEN [i0 EXCEPT !.Seconds = -i0.Seconds] ELSE i0
        h   == NormalHours(i)
        m   == NormalMinutes(i)
        str1 == IF y # 0 THEN FormatInt(y) \o YearWord ELSE <<>>
        str2 == str1 \o (IF mon # 0 THEN FormatInt(mon) \o MonsWord ELSE <<>>)
        str3 == str2 \o (IF i.Days # 0 THEN FormatInt(i.Days) \o DaysWord ELSE <<>>)
    IN  IF i.Seconds # 0
        THEN str3 \o (IF negativeTime THEN <<"-">> ELSE <<>>)
                  \o Pad2(h) \o <<":">> \o Pad2(m) \o <<":">> \o SecondsField(i.Seconds)
        ELSE Slice(str3, 1, Len(str3))

\* The steps of Parse after the match; each returns the interval so far and
\* whether the step failed (the named results i, err at its return).
ParseYears(parts, i) ==
    IF parts[1] = <<>> THEN [i |-> i, err |-> FALSE]
    ELSE LET r == ParseInt(parts[1], 32)
         IN  IF r.err THEN [i |-> i, err |-> TRUE]
             ELSE [i |-> [i EXCEPT !.Months = Mul32(r.val, 12)], err |-> FALSE]

ParseMons(parts, i) ==
    IF parts[2] = <<>> THEN [i |-> i, err |-> FALSE]
    ELSE LET r == ParseInt(parts[2], 32)
         IN  IF r.err THEN [i |-> i, err |-> TRUE]
             ELSE [i |-> [i EXCEPT !.Months = Add32(i.Months, r.val)], err |-> FALSE]

ParseDays(parts, i) ==
    IF parts[3] = <<>> THEN [i |-> i, err |-> FALSE]
    ELSE LET r == ParseInt(parts[3], 32)
         IN  IF r.err THEN [i |-> i, err |-> TRUE]
             ELSE [i |-> [i EXCEPT !.Days = r.val], err |-> FALSE]

ParseHours(parts, i) ==
    IF parts[5] = <<>> THEN [i |-> i, err |-> FALSE]
    ELSE LET r == ParseInt(parts[5], 64)
         IN  IF r.err THEN [i |-> i, err |-> TRUE]
             ELSE [i |-> [i EXCEPT !.Seconds = r.val * 3600], err |-> FALSE]

ParseMinutes(parts, i) ==
    IF parts[6] = <<>> THEN [i |-> i, err |-> FALSE]
    ELSE LET r == ParseInt(parts[6], 64)
         IN  IF r.err THEN [i |-> i, err |-> TRUE]
             ELSE [i |-> [i EXCEPT !.Seconds = i.Seconds + r.val * 60], err |-> FALSE]

ParseSeconds(parts, i) ==
    IF parts[7] = <<>> THEN [i |-> i, err |-> FALSE]
    ELSE LET r == ParseFloat(parts[7])
         IN  IF r.err THEN [i |-> i, err |-> TRUE]
             ELSE [i |-> [i EXCEPT !.Seconds = i.Seconds + r.val], err |-> FALSE]

\* FixSign with the negation left out.
FixSignDropped(parts, i) == i

\* if negativeTime { i.Seconds *= -1 }
FixSign(parts, i) ==
    IF parts[4] = <<"-">> THEN [i EXCEPT !.Seconds = i.Seconds * (-1)] ELSE i

\* func Parse(s string) (i Interval, err error)
Parse(s) ==
    LET m == FindStringSubmatch(s)
    IN  IF ~m.ok \/ Len(m.parts) # 7 THEN [i |-> ZeroInterval, err |-> TRUE]
        ELSE
        LET r1 == ParseYears(m.parts, ZeroInterval)
            r2 == ParseMons(m.parts, r1.i)
            r3 == ParseDays(m.parts, r2.i)
            r5 == ParseHours(m.parts, r3.i)
            r6 == ParseMinutes(m.parts, r5.i)
            r7 == ParseSeconds(m.parts, r6.i)
        IN  IF r1.err THEN r1
            ELSE IF r2.err THEN r2
            ELSE IF r3.err THEN r3
            ELSE IF r5.err THEN r5
            ELSE IF r6.err THEN r6
            ELSE IF r7.err THEN r7
            ELSE [i |-> FixSign(m.parts, r7.i), err |-> FALSE]

Equal(i, i2) ==
    i.Months = i2.Months /\ i.Days = i2.Days /\ i.Seconds = i2.Seconds

\* A comparison that is content with one field.
LessOrEqualAnyField(i, i2) ==
    i.Months <= i2.Months \/ i.Days <= i2.Days \/ i.Seconds <= i2.Seconds

LessOrEqual(i, i2) ==
    i.Months <= i2.Months /\ i.Days <= i2.Days /\ i.Seconds <= i2.Seconds

\* Less without the test for equality.
LessNoEqualTest(i, i2) == LessOrEqual(i, i2)

Less(i, i2) == ~Equal(i, i2) /\ LessOrEqual(i, i2)

\* GreaterOrEqual with the Days compared strictly.
GreaterOrEqualDaysStrict(i, i2) ==
    i.Months >= i2.Months /\ i.Days > i2.Days /\ i.Seconds >= i2.Seconds

GreaterOrEqual(i, i2) ==
    i.Months >= i2.Months /\ i.Days >= i2.Days /\ i.Seconds >= i2.Seconds

Greater(i, i2) == ~Equal(i, i2) /\ GreaterOrEqual(i, i2)

\* Comparable looking one way only.
ComparableOneWay(i, i2) == LessOrEqual(i, i2)

Comparable(i, i2) == LessOrEqual(i, i2) \/ GreaterOrEqual(i, i2)

\* A method declared on (i Interval) gets a copy of the value it is called
\* on: whatever the body assigns to i, the caller's value stays as it was.
\* PointerReceiver is the other declaration, (i *Interval), where the
\* caller's value is the one the body assigned to.
PointerReceiver(caller, local) == local

ValueReceiver(caller, local) == caller

\* The receiver i of String at its return (i.Seconds = -i.Seconds).
StringReceiver(i0) ==
    IF i0.Months = 0 /\ i0.Days = 0 /\ i0.Seconds = 0 THEN i0
    ELSE IF i0.Seconds < 0 THEN [i0 EXCEPT !.Seconds = -i0.Seconds] ELSE i0

\* func (i Interval) NormalDays() int32
NormalDays(i) == i.Days

\* int8(int64(i.Seconds) % 60): % takes the sign of the dividend.
NormalSeconds(i) == TruncRem(i.Seconds, 60)

\* Sub with its three operators turned into +.
SubAsAdd(i, sub) ==
    Interval(Add32(i.Months, sub.Months), Add32(i.Days, sub.Days),
             FAdd(i.Seconds, sub.Seconds))

\* func (i Interval) Add(add Interval) Interval: i.Months += add.Months,
\* i.Days += add.Days (int32, wrapping), i.Seconds += add.Seconds; return i
Add(i, add) ==
    Interval(Add32(i.Months, add.Months), Add32(i.Days, add.Days),
             FAdd(i.Seconds, add.Seconds))

\* func (i Interval) Sub(sub Interval) Interval
Sub(i, sub) ==
    Interval(Sub32(i.Months, sub.Months), Sub32(i.Days, sub.Days),
             FSub(i.Seconds, sub.Seconds))

\* 2^31 as an exact number
TwoTo31 == BnShl(<<1>>, 31)

\* int32(f) for a float64 f: the whole part toward zero when that is an
\* int32.  Otherwise the result depends on the implementation (Go
\* specification, Conversions); builds give -2^31 or the nearer end of int32.
Int32Conv(f) ==
    LET mag == FTruncMag(f)
    IN  IF BnCmp(mag, TwoTo31) < 0
        THEN {IF f.neg THEN -BnToNat(mag) ELSE BnToNat(mag)}
        ELSE IF f.neg /\ mag = TwoTo31 THEN {MinInt32}
        ELSE {MinInt32, MaxInt32}

\* Div with / turned into *.
DivAsMul(i, div) ==
    {Interval(mo, d, FMul(i.Seconds, div)) :
        mo \in Int32Conv(FMul(FromInt(i.Months), div)),
        d \in Int32Conv(FMul(FromInt(i.Days), div))}

\* func (i Interval) Mul(mul float64) Interval: the Intervals the call can
\* return (one, unless a conversion to int32 is out of range).
\* i.Months, i.Days, i.Seconds =
\*     int32(float64(i.Months)*mul), int32(float64(i.Days)*mul), i.Seconds*mul
Mul(i, mul) ==
    {Interval(mo, d, FMul(i.Seconds, mul)) :
        mo \in Int32Conv(FMul(FromInt(i.Months), mul)),
        d \in Int32Conv(FMul(FromInt(i.Days), mul))}

\* func (i Interval) Div(div float64) Interval, for div # 0
Div(i, div) ==
    {Interval(mo, d, FDiv(i.Seconds, div)) :
        mo \in Int32Conv(FDiv(FromInt(i.Months), div)),
        d \in Int32Conv(FDiv(FromInt(i.Days), div))}

\* mathhelper.Round(f): the int64 nearest to f, halves away from zero.  When
\* the nearest whole number is no int64 the conversion's result depends on
\* the implementation; builds give one end of int64.
Round(f) ==
    LET whole == FTruncMag(f)
        up    == f.e < 0 /\ BnCmp(BnLow(f.m, -f.e), BnShl(<<1>>, -f.e - 1)) >= 0
        r     == Signed(f.neg, IF up THEN BnAdd(whole, <<1>>) ELSE whole)
    IN  IF FitsInt64(r) THEN {r} ELSE {MinInt64, MaxInt64}

\* The factor of microseconds, in place of 1e9.
NanosPerSecondShort == 1000 * 1000

\* The 1e9 of Duration
NanosPerSecond == 1000000000

\* func (i Interval) Duration(daysInMonth uint8, secondsInDay uint32):
\* the values the call can return (one, unless Round is out of range).
\* (int64(i.Months)*int64(daysInMonth)+int64(i.Days))*int64(secondsInDay)*1e9
\*     + mathhelper.Round(i.Seconds*1e9)
Duration(i, daysInMonth, secondsInDay) ==
    LET days   == Int64Add(Int64Mul(Int64(i.Months), Int64(daysInMonth)), Int64(i.Days))
        nanos  == Int64Mul(Int64Mul(days, Int64(secondsInDay)), Int64(NanosPerSecond))
    IN  {Int64Add(nanos, r) : r \in Round(FMul(i.Seconds, FromInt(NanosPerSecond)))}

(***************************************************************************)
(* Inputs.  Every test vector carries, beside the string handed to Parse,  *)
(* the description tc of how the string was built (as the rows of the      *)
(* tables in TestParse and TestString do).                                 *)
(***************************************************************************)
\* Small numbers -NumBound..NumBound are offered for every integer field.
NumBound == 1
\* Separators of 0..MaxSpaces spaces are offered between and around parts.
MaxSpaces == 2

Sp == <<" ">>
Colon == <<":">>

NoField == [kind |-> "none", v |-> 0, txt |-> <<>>]
IntField(v) == [kind |-> "int", v |-> v, txt |-> FormatInt(v)]
PlusField(v) == [kind |-> "int", v |-> v, txt |-> <<"+">> \o FormatInt(v)]
\* A number too wide for int32; v is not its value.
WideField(t) == [kind |-> "wide", v |-> 0, txt |-> t]

SmallNums == (-NumBound)..NumBound

YearFields ==
    {NoField, WideField(Rep("9", 11)), PlusField(9)}
    \cup {IntField(v) : v \in SmallNums \cup {2, 178956970, 178956971,
                                               -178956971, MaxInt32}}

MonsFields ==
    {NoField, WideField(Rep("9", 10))}
    \cup {IntField(v) : v \in SmallNums \cup {-2, 8, MaxInt32, MinInt32}}

DaysFields ==
    {NoField, WideField(<<"+">> \o Rep("9", 11)), PlusField(3)}
    \cup {IntField(v) : v \in SmallNums \cup {MaxInt32, MinInt32}}

HmsText(h, m, s) == Pad2(h) \o Colon \o Pad2(m) \o Colon \o Pad2(s)

NoTime == [kind |-> "none", neg |-> FALSE, h |-> 0, m |-> 0, s |-> 0, txt |-> <<>>]

HmsTime(neg, hms) ==
    [kind |-> "hms", neg |-> neg, h |-> hms[1], m |-> hms[2], s |-> hms[3],
     txt |-> (IF neg THEN <<"-">> ELSE <<>>) \o HmsText(hms[1], hms[2], hms[3])]

\* A time part with one number too wide for its type.
WideTime(t) == [kind |-> "wide", neg |-> FALSE, h |-> 0, m |-> 0, s |-> 0, txt |-> t]

HmsValues ==
    {<<0, 0, 0>>, <<4, 5, 6>>, <<34, 56, 78>>, <<0, 99, 0>>}
    \cup {<<0, 0, s>> : s \in 0..NumBound}

TimeFields ==
    {NoTime,
     WideTime(Rep("9", 25) \o Colon \o Pad2(5) \o Colon \o Pad2(6)),
     WideTime(Pad2(4) \o Colon \o Rep("9", 25) \o Colon \o Pad2(6)),
     WideTime(Pad2(4) \o Colon \o Pad2(6) \o Colon \o Rep("9", MaxFloatDigits + 1))}
    \cup {HmsTime(neg, hms) : neg \in BOOLEAN, hms \in HmsValues}

PartText(f, word) == IF f.kind = "none" THEN <<>> ELSE f.txt \o Sp \o word

\* The non-empty texts of ts, joined by sep.
RECURSIVE Join(_, _)
Join(ts, sep) ==
    IF ts = <<>> THEN <<>>
    ELSE LET rest == Join(Tail(ts), sep)
         IN  IF Head(ts) = <<>> THEN rest
             ELSE IF rest = <<>> THEN Head(ts)
             ELSE Head(ts) \o sep \o rest

PartsText(y, m, d, t) ==
    Join(<<PartText(y, UnitWord(1)), PartText(m, UnitWord(3)),
           PartText(d, UnitWord(5)), t.txt>>, Sp)

\* "[Y year] [M mons] [D days] [[-]h:m:s]", parts joined by one space.
PartsInputs ==
    {[fam |-> "parts", y |-> y, m |-> m, d |-> d, t |-> t,
      arg |-> PartsText(y, m, d, t)] :
        y \in YearFields, m \in MonsFields, d \in DaysFields, t \in TimeFields}

\* Present parts with lead, k1, k2, k3, trail spaces before, between and
\* after them (an absent part leaves its separators in place).
SpacesText(on, n) ==
    Rep(" ", n[1])
    \o (IF on[1] THEN PartText(IntField(1), UnitWord(1)) ELSE <<>>) \o Rep(" ", n[2])
    \o (IF on[2] THEN PartText(IntField(2), UnitWord(3)) ELSE <<>>) \o Rep(" ", n[3])
    \o (IF on[3] THEN PartText(IntField(3), UnitWord(5)) ELSE <<>>) \o Rep(" ", n[4])
    \o (IF on[4] THEN HmsText(4, 5, 6) ELSE <<>>) \o Rep(" ", n[5])

SpacesInputs ==
    {[fam |-> "spaces", on |-> on, n |-> n, arg |-> SpacesText(on, n)] :
        on \in [1..4 -> BOOLEAN], n \in [1..5 -> 0..MaxSpaces]}

Y1 == PartText(IntField(1), UnitWord(1))
M2 == PartText(IntField(2), UnitWord(3))
D3 == PartText(IntField(3), UnitWord(5))
T456 == HmsText(4, 5, 6)
Prefix9 ==
    PartsText(IntField(9), IntField(-2), PlusField(9), NoTime) \o Sp

\* Characters put where the decimal point of the seconds number belongs.
BadSeparators == {",", "e", "E", "-", "+", ":", " ", "x"}

Malformed(why, arg) == [fam |-> "malformed", why |-> why, arg |-> arg]

MalformedInputs ==
    {Malformed("short time", pre \o x) :
        pre \in {<<>>, Prefix9},
        x \in {Pad2(0) \o Colon \o Pad2(0),
               <<"0", "4", "0", "5", "0", "6">>,
               Colon \o Pad2(5) \o Colon \o Pad2(6)}}
    \cup
    {Malformed("no number", x) :
        x \in {Join(<<UnitWord(1), UnitWord(3), UnitWord(5)>>, Sp),
               UnitWord(1), UnitWord(3), UnitWord(5)}}
    \cup
    {Malformed("non-integer", <<"1", c, "5">> \o Sp \o UnitWord(k)) :
        c \in {".", ","}, k \in {1, 3, 5}}
    \cup
    {Malformed("separator", pre \o Pad2(4) \o Colon \o Pad2(5) \o Colon \o <<"1", c, "5">>) :
        pre \in {<<>>, Prefix9}, c \in BadSeparators}
    \cup
    {Malformed("order", Join(x, Sp)) :
        x \in {<<M2, Y1>>, <<D3, M2>>, <<D3, Y1>>, <<T456, Y1>>, <<T456, D3>>,
               <<Y1, D3, M2>>, <<Y1, T456, D3>>}}
    \cup
    {Malformed("extra", Join(x, Sp)) :
        x \in {<<Y1, <<"x">> >>, <<Y1, Y1>>, <<T456, <<"7">> >>, << <<"7">>, T456>>,
               <<Y1, M2, D3, T456, T456>>, <<Y1, <<"2">> >>, << <<"x">> >>,
               << <<"1">>, <<"w", "e", "e", "k">> >>}}

\* Receivers of String: int32 extremes, both signs, and whole Seconds from
\* hours, minutes and seconds that cover every residue class that matters.
FormatMonths == SmallNums \cup {MinInt32, -14, 24, 1000, MaxInt32}
FormatDays == SmallNums \cup {MinInt32, MaxInt32}
FormatSeconds ==
    {sg * (h * 3600 + m * 60 + s) :
        sg \in {-1, 1}, h \in {0, 34, 100} \cup (0..NumBound), m \in {0, 1, 59},
        s \in {0, 1, 9, 10, 29, 30, 31, 45, 59}}

FormatInputs ==
    {Interval(mo, d, sec) : mo \in FormatMonths, d \in FormatDays, sec \in FormatSeconds}

\* Operands of the comparisons.
OrderBound == 1

OrderInts == (0..OrderBound) \cup {MinInt32, MaxInt32}
OrderSeconds == ((-OrderBound)..OrderBound) \cup {-86400, 86400}

OrderInputs ==
    {Interval(mo, d, sec) : mo \in OrderInts, d \in OrderInts, sec \in OrderSeconds}

(***************************************************************************)
(* State: the operands a, b; the test vector tc (tc.arg is the argument of *)
(* Parse); pc, the call made last; and what the calls returned: i, err of  *)
(* Parse, str of String, res of a comparison.                              *)
(***************************************************************************)
VARIABLES a, b, tc, pc, i, err, str, res, n, dur

vars == <<a, b, tc, pc, i, err, str, res, n, dur>>

NoVector == [fam |-> "none", arg |-> <<>>]

Returned ==
    /\ i = ZeroInterval /\ err = FALSE /\ str = <<>> /\ res = FALSE
    /\ n = 0 /\ dur = Int64Zero

Init ==
    /\ pc = "start"
    /\ Returned
    /\ b = ZeroInterval
    /\ \/ a = ZeroInterval /\ tc \in PartsInputs \cup SpacesInputs \cup MalformedInputs
       \/ a \in FormatInputs /\ tc = NoVector

\* i, err := Parse(tc.arg)
CallParse ==
    /\ pc = "start"
    /\ tc.fam # "none"
    /\ LET r == Parse(tc.arg) IN i' = r.i /\ err' = r.err
    /\ pc' = "Parse"
    /\ UNCHANGED <<a, b, tc, str, res, n, dur>>

\* str := a.String()
CallString ==
    /\ pc = "start"
    /\ tc.fam = "none"
    /\ str' = String(a)
    /\ a' = ValueReceiver(a, StringReceiver(a))
    /\ pc' = "String"
    /\ UNCHANGED <<b, tc, i, err, res, n, dur>>

\* i, err := Parse(str), str the string a.String() returned
CallParseString ==
    /\ pc = "String"
    /\ LET r == Parse(str) IN i' = r.i /\ err' = r.err
    /\ pc' = "ParseString"
    /\ UNCHANGED <<a, b, tc, str, res, n, dur>>

Next == CallParse \/ CallString \/ CallParseString

Spec == Init /\ [][Next]_vars

InitOrder ==
    /\ pc = "start"
    /\ Returned
    /\ tc = NoVector
    /\ a \in OrderInputs
    /\ b \in OrderInputs

CallEqual ==
    /\ pc = "start"
    /\ tc.fam = "none"
    /\ res' = Equal(a, b)
    /\ pc' = "Equal"
    /\ UNCHANGED <<a, b, tc, i, err, str, n, dur>>

CallLessOrEqual ==
    /\ pc = "start"
    /\ tc.fam = "none"
    /\ res' = LessOrEqual(a, b)
    /\ pc' = "LessOrEqual"
    /\ UNCHANGED <<a, b, tc, i, err, str, n, dur>>

CallLess ==
    /\ pc = "start"
    /\ tc.fam = "none"
    /\ res' = Less(a, b)
    /\ pc' = "Less"
    /\ UNCHANGED <<a, b, tc, i, err, str, n, dur>>

CallGreaterOrEqual ==
    /\ pc = "start"
    /\ tc.fam = "none"
    /\ res' = GreaterOrEqual(a, b)
    /\ pc' = "GreaterOrEqual"
    /\ UNCHANGED <<a, b, tc, i, err, str, n, dur>>

CallGreater ==
    /\ pc = "start"
    /\ tc.fam = "none"
    /\ res' = Greater(a, b)
    /\ pc' = "Greater"
    /\ UNCHANGED <<a, b, tc, i, err, str, n, dur>>

CallComparable ==
    /\ pc = "start"
    /\ tc.fam = "none"
    /\ res' = Comparable(a, b)
    /\ pc' = "Comparable"
    /\ UNCHANGED <<a, b, tc, i, err, str, n, dur>>

NextOrder ==
    \/ CallEqual
    \/ CallLessOrEqual
    \/ CallLess
    \/ CallGreaterOrEqual
    \/ CallGreater
    \/ CallComparable

SpecOrder == InitOrder /\ [][NextOrder]_vars

(***************************************************************************)
(* Properties of Parse and String, checked under Spec                      *)
(***************************************************************************)
Abs(x) == IF x < 0 THEN -x ELSE x

\* C1: round trip.  For every Interval a with whole Seconds, Parse(a.String())
\* returns no error and an Interval whose Months, Days and Seconds are those
\* of a.
C1_RoundTrip ==
    pc = "ParseString" =>
        /\ err = FALSE
        /\ i.Months = a.Months /\ i.Days = a.Days /\ i.Seconds = a.Seconds

\* "[-]HH:MM:SS" for the whole number sec: HH = |sec| div 3600 on at least two
\* digits, MM = (|sec| div 60) mod 60 and SS = |sec| mod 60 on two digits.
TimeBlock(sec) ==
    (IF sec < 0 THEN <<"-">> ELSE <<>>)
    \o Pad2(Abs(sec) \div 3600) \o Colon
    \o Pad2((Abs(sec) \div 60) % 60) \o Colon
    \o <<DigitChar((Abs(sec) % 60) \div 10), DigitChar(Abs(sec) % 10)>>

\* t ends with blk, and blk is all of t or follows a space.
EndsWithBlock(t, blk) ==
    /\ Len(t) >= Len(blk)
    /\ Slice(t, Len(t) - Len(blk) + 1, Len(t) + 1) = blk
    /\ Len(t) > Len(blk) => t[Len(t) - Len(blk)] = " "

\* C2: for every Interval whose Seconds is a non-zero whole number S, the
\* string String returns ends with the time block "[-]HH:MM:SS" of S, with a
\* single leading '-' iff S < 0 and SS = |S| mod 60 as two digits 00..59.
C2_TimeBlock ==
    (pc = "String" /\ a.Seconds # 0) => EndsWithBlock(str, TimeBlock(a.Seconds))

NoWideField(v) == v.y.kind # "wide" /\ v.m.kind # "wide" /\ v.d.kind # "wide"

\* years*12 + mons of a test vector, exactly.
ExactMonths(v) == BigAdd(BigMulK(ToBig(v.y.v), 12), ToBig(v.m.v))

\* C3: Parse returns an error whenever a year/mons/days contribution does not
\* fit int32: whenever Parse succeeds, no number was wider than int32, Months
\* is exactly years*12 + mons and Days is exactly the days number.
C3_OverflowRejected ==
    (pc = "Parse" /\ tc.fam = "parts" /\ ~err) =>
        /\ NoWideField(tc)
        /\ ToBig(i.Months) = ExactMonths(tc)
        /\ i.Days = tc.d.v

BadSpacing(t) ==
    /\ t # <<>>
    /\ \/ t[1] = " "
       \/ t[Len(t)] = " "
       \/ \E k \in 1..(Len(t) - 1) : t[k] = " " /\ t[k + 1] = " "

\* The parts of a "spaces" vector that are present, joined by one space each.
SingleSpaced(v) ==
    Join(<<IF v.on[1] THEN Y1 ELSE <<>>, IF v.on[2] THEN M2 ELSE <<>>,
           IF v.on[3] THEN D3 ELSE <<>>, IF v.on[4] THEN T456 ELSE <<>> >>, Sp)

\* C4: Parse is strict about whitespace: an input with two or more
\* consecutive spaces, or a leading or trailing space, is rejected; adjacent
\* parts are accepted only when joined by exactly one space.
C4_StrictSpaces ==
    pc = "Parse" =>
        /\ BadSpacing(tc.arg) => err
        /\ (tc.fam = "spaces" /\ ~err) => tc.arg = SingleSpaced(tc)

\* Every number of the vector is within its width: none is wider than its
\* type, and the Months contributions years*12 and years*12 + mons fit int32.
WithinWidth(v) ==
    /\ NoWideField(v)
    /\ v.t.kind # "wide"
    /\ BigFits32(BigMulK(ToBig(v.y.v), 12))
    /\ BigFits32(ExactMonths(v))

TimeValue(t) == (IF t.neg THEN -1 ELSE 1) * (t.h * 3600 + t.m * 60 + t.s)

\* C5: for every well-formed input "[Y year] [M mons] [D days] [[-]h:m:s]"
\* with numbers within width, Parse succeeds with Months = Y*12 + M,
\* Days = D and Seconds = h*3600 + m*60 + s, negated as a whole iff the time
\* part starts with '-'; absent parts contribute 0; m and s may exceed 59.
C5_WellFormed ==
    (pc = "Parse" /\ tc.fam = "parts" /\ WithinWidth(tc)) =>
        /\ err = FALSE
        /\ ToBig(i.Months) = ExactMonths(tc)
        /\ i.Days = tc.d.v
        /\ i.Seconds = TimeValue(tc.t)

\* "2 year -34:56:78" has been parsed to {24, 0, -125838}.
C5_Witness ==
    /\ pc = "Parse"
    /\ tc.fam = "parts"
    /\ tc.y = IntField(2) /\ tc.m = NoField /\ tc.d = NoField
    /\ tc.t = HmsTime(TRUE, <<34, 56, 78>>)
    /\ err = FALSE
    /\ i = Interval(24, 0, -125838)

\* C6: Parse returns an error for every structurally malformed input: a short
\* time part, unit words without a number, a non-integer year/mons/days
\* number, a seconds number with another character than '.' as its decimal
\* separator, parts out of order, an extra token.
C6_MalformedRejected ==
    (pc = "Parse" /\ tc.fam = "malformed") => err

\* C7: a failed Parse is never partially applied: whenever Parse returns an
\* error, the Interval returned with it is the zero value.
C7_NoPartialResult ==
    (pc = "Parse" /\ err) => i = ZeroInterval

\* The date part as the claim words it: the non-zero ones of "<y> year",
\* "<mon> mons", "<d> days", in that order, with one space between them.
DateItem(v, word) == IF v # 0 THEN FormatInt(v) \o Sp \o word ELSE <<>>

DatePart(x) ==
    Join(<<DateItem(TruncDiv(x.Months, 12), <<"y", "e", "a", "r">>),
           DateItem(TruncRem(x.Months, 12), <<"m", "o", "n", "s">>),
           DateItem(x.Days, <<"d", "a", "y", "s">>)>>, Sp)

NoSpace(t) == \A k \in 1..Len(t) : t[k] # " "

\* C14: String of the all-zero Interval is "00:00:00"; otherwise the date
\* part is "<Months/12> year", "<Months%12> mons", "<Days> days", in that
\* order, each only if its number is non-zero, joined by single spaces; with
\* Seconds = 0 the output is the date part alone, with no space at either
\* end, and with Seconds # 0 one space and the time block follow it.
C14_DatePart ==
    pc = "String" =>
        IF a = ZeroInterval THEN str = ZeroTime
        ELSE LET dp == DatePart(a)
                 k  == Len(dp)
             IN  IF a.Seconds = 0 THEN str = dp /\ str[1] # " " /\ str[Len(str)] # " "
                 ELSE IF dp = <<>> THEN str # <<>> /\ NoSpace(str)
                 ELSE /\ Len(str) > k + 1
                      /\ Slice(str, 1, k + 1) = dp
                      /\ str[k + 1] = " "
                      /\ NoSpace(Slice(str, k + 2, Len(str) + 1))

C14_Witness ==
    /\ pc = "String"
    /\ a.Months = -14 /\ a.Days = 1 /\ a.Seconds = 0
    /\ str = <<"-", "1", " ", "y", "e", "a", "r", " ", "-", "2", " ", "m", "o",
               "n", "s", " ", "1", " ", "d", "a", "y", "s">>

(***************************************************************************)
(* Properties of the comparisons, checked under SpecOrder                  *)
(***************************************************************************)
FieldsLE(x, y) ==
    x.Months <= y.Months /\ x.Days <= y.Days /\ x.Seconds <= y.Seconds

FieldsGE(x, y) ==
    x.Months >= y.Months /\ x.Days >= y.Days /\ x.Seconds >= y.Seconds

SomeFieldLess(x, y) ==
    x.Months < y.Months \/ x.Days < y.Days \/ x.Seconds < y.Seconds

\* C8: a.LessOrEqual(b) iff every field of a is <= the same field of b;
\* a.GreaterOrEqual(b) iff every field of a is >= the same field of b; and
\* a.GreaterOrEqual(b) = b.LessOrEqual(a), also at the int32 extremes.
C8_FieldwiseOrder ==
    /\ pc = "LessOrEqual" => res = FieldsLE(a, b)
    /\ pc = "GreaterOrEqual" => (res = FieldsGE(a, b) /\ res = LessOrEqual(b, a))

\* {-2^31, 2^31-1, 0}.GreaterOrEqual({2^31-1, -2^31, 0}) has returned false.
C8_Witness ==
    /\ pc = "GreaterOrEqual"
    /\ a = Interval(MinInt32, MaxInt32, 0)
    /\ b = Interval(MaxInt32, MinInt32, 0)
    /\ res = FALSE

\* C9: a.Less(b) iff some field of a is strictly less than the same field of
\* b and every other field is less or equal, that is LessOrEqual(a, b) and
\* not Equal(a, b); Greater is the dual; a.Less(b) = b.Greater(a).
C9_StrictOrder ==
    /\ pc = "Less" =>
          /\ res = (SomeFieldLess(a, b) /\ FieldsLE(a, b))
          /\ res = (LessOrEqual(a, b) /\ ~Equal(a, b))
          /\ res = Greater(b, a)
    /\ pc = "Greater" =>
          /\ res = (SomeFieldLess(b, a) /\ FieldsGE(a, b))
          /\ res = (GreaterOrEqual(a, b) /\ ~Equal(a, b))
          /\ res = Less(b, a)

\* {-2^31, -2^31, 0}.Less({2^31-1, -2^31, 0}) has returned true.
C9_Witness ==
    /\ pc = "Less"
    /\ a = Interval(MinInt32, MinInt32, 0)
    /\ b = Interval(MaxInt32, MinInt32, 0)
    /\ res = TRUE

\* One field of x is strictly greater and another strictly smaller than the
\* same fields of y.
Opposed(x, y) ==
    /\ x.Months > y.Months \/ x.Days > y.Days \/ x.Seconds > y.Seconds
    /\ SomeFieldLess(x, y)

\* C10: a.Comparable(b) iff LessOrEqual(a, b) or GreaterOrEqual(a, b); it is
\* false whenever one field of a is strictly greater and another strictly
\* smaller than the same fields of b; and a.Comparable(b) = b.Comparable(a).
C10_Comparable ==
    pc = "Comparable" =>
        /\ res = (FieldsLE(a, b) \/ FieldsGE(a, b))
        /\ Opposed(a, b) => res = FALSE
        /\ res = Comparable(b, a)

\* {1, 0, 86400}.Comparable({1, 1, 0}) has returned false.
C10_Witness ==
    /\ pc = "Comparable"
    /\ a = Interval(1, 0, 86400)
    /\ b = Interval(1, 1, 0)
    /\ res = FALSE

(***************************************************************************)
(* Add and Sub.  The operands carry Seconds as float64 values, fractions   *)
(* and whole numbers beyond 2^53 among them (tc.fam = "float").            *)
(***************************************************************************)
\* The float64 nearest to p/q, what the literal p/q (1.05, 0.1) denotes.
Ratio(p, q) == FDiv(FromInt(p), FromInt(q))

TwoTo53 == [neg |-> FALSE, m |-> <<1>>, e |-> MantissaBits]

FloatVector == [fam |-> "float", arg |-> <<>>]

\* The families of test vectors whose operands carry float64 Seconds.
FloatFamilies == {"float", "scalar", "duration"}

ArithBound == 1

ArithMonths == ((-ArithBound)..ArithBound) \cup {MinInt32, MaxInt32}
ArithDays == {MinInt32, 0, 1, MaxInt32}
ArithSeconds ==
    {FromInt(v) : v \in (-ArithBound)..ArithBound}
        \cup {Ratio(1, 10), Ratio(2, 10), TwoTo53}

ArithInputs ==
    {Interval(mo, d, sec) : mo \in ArithMonths, d \in ArithDays, sec \in ArithSeconds}

ZeroFloatInterval == Interval(0, 0, FZero)

InitArith ==
    /\ pc = "start"
    /\ Returned
    /\ tc = FloatVector
    /\ a \in ArithInputs
    /\ b \in ArithInputs

\* i := a.Add(b)
CallAdd ==
    /\ pc = "start"
    /\ tc.fam \in FloatFamilies
    /\ i' = Add(a, b)
    /\ a' = ValueReceiver(a, Add(a, b))
    /\ pc' = "Add"
    /\ UNCHANGED <<b, tc, err, str, res, n, dur>>

\* i := a.Sub(b)
CallSub ==
    /\ pc = "start"
    /\ tc.fam \in FloatFamilies
    /\ i' = Sub(a, b)
    /\ a' = ValueReceiver(a, Sub(a, b))
    /\ pc' = "Sub"
    /\ UNCHANGED <<b, tc, err, str, res, n, dur>>

\* i := a.Add(b).Sub(b): Sub on the value Add returned
CallAddSub ==
    /\ pc = "Add"
    /\ i' = Sub(i, b)
    /\ pc' = "AddSub"
    /\ UNCHANGED <<a, b, tc, err, str, res, n, dur>>

NextArith == CallAdd \/ CallSub \/ CallAddSub

SpecArith == InitArith /\ [][NextArith]_vars

(***************************************************************************)
(* Properties of Add and Sub, checked under SpecArith                      *)
(***************************************************************************)
FitsInt32(x) == BigFits32(x)

\* Neither a.Months + b.Months nor a.Days + b.Days leaves int32.
NoOverflow(x, y) ==
    /\ FitsInt32(BigAdd(ToBig(x.Months), ToBig(y.Months)))
    /\ FitsInt32(BigAdd(ToBig(x.Days), ToBig(y.Days)))

\* x + y is a float64 value: it needs no rounding.
ExactSum(x, y) ==
    LET s == FSumExact(x, y)
    IN  s.m = <<>> \/ BnBitLen(s.m) - BnTrailingZeros(s.m) <= MantissaBits

SameFields(x, y) ==
    x.Months = y.Months /\ x.Days = y.Days /\ x.Seconds = y.Seconds

\* C11 as stated: for all Intervals a, b whose field sums do not overflow,
\* a.Add(b).Sub(b) is Equal to a, and the zero Interval is the identity of
\* Add on both sides.
C11_AddSubInverse ==
    /\ (pc = "AddSub" /\ NoOverflow(a, b)) => SameFields(i, a)
    /\ (pc = "Add" /\ b = ZeroFloatInterval) => SameFields(i, a)
    /\ (pc = "Add" /\ a = ZeroFloatInterval) => SameFields(i, b)

\* C11 amended: a.Add(b).Sub(b) is Equal to a for all Intervals a, b whose
\* Months and Days sums stay within int32 and whose Seconds sum is itself a
\* float64 value (as for whole numbers below 2^53); the zero Interval is the
\* identity of Add on both sides.
C11_AddSubInverseExact ==
    /\ (pc = "AddSub" /\ NoOverflow(a, b) /\ ExactSum(a.Seconds, b.Seconds))
            => SameFields(i, a)
    /\ (pc = "Add" /\ b = ZeroFloatInterval) => SameFields(i, a)
    /\ (pc = "Add" /\ a = ZeroFloatInterval) => SameFields(i, b)

C11_Witness ==
    /\ pc = "AddSub"
    /\ NoOverflow(a, b)
    /\ ExactSum(a.Seconds, b.Seconds)
    /\ a.Months = MaxInt32 /\ b.Months = -1
    /\ a.Seconds = Ratio(1, 10) /\ b.Seconds = Ratio(1, 10)
    /\ SameFields(i, a)

(***************************************************************************)
(* The Normal* methods: n is the number the call returned.                 *)
(***************************************************************************)
NormalBound == 2

NormalMonthsInputs ==
    ((-NormalBound)..NormalBound)
        \cup {MinInt32, -128, -13, -12, -11, 11, 12, 13, 1001, MaxInt32}

NormalDaysInputs == {MinInt32, 0, 97, 101, MaxInt32}

NormalSecondsInputs ==
    {sg * (h * 3600 + mi * 60 + s) :
        sg \in {-1, 1}, h \in 0..NormalBound, mi \in {0, 1, 59}, s \in {0, 1, 59}}
    \cup {1001, 24001, -24001, MaxInt32, -MaxInt32}

NormalInputs ==
    {Interval(mo, d, sec) : mo \in NormalMonthsInputs, d \in NormalDaysInputs,
                            sec \in NormalSecondsInputs}

InitNormal ==
    /\ pc = "start"
    /\ Returned
    /\ tc = NoVector
    /\ a \in NormalInputs
    /\ b = ZeroInterval

CallNormalYears ==
    /\ pc = "start"
    /\ tc.fam = "none"
    /\ n' = NormalYears(a)
    /\ pc' = "NormalYears"
    /\ UNCHANGED <<a, b, tc, i, err, str, res, dur>>

CallNormalMonths ==
    /\ pc = "start"
    /\ tc.fam = "none"
    /\ n' = NormalMonths(a)
    /\ pc' = "NormalMonths"
    /\ UNCHANGED <<a, b, tc, i, err, str, res, dur>>

CallNormalDays ==
    /\ pc = "start"
    /\ tc.fam = "none"
    /\ n' = NormalDays(a)
    /\ pc' = "NormalDays"
    /\ UNCHANGED <<a, b, tc, i, err, str, res, dur>>

CallNormalHours ==
    /\ pc = "start"
    /\ tc.fam = "none"
    /\ n' = NormalHours(a)
    /\ pc' = "NormalHours"
    /\ UNCHANGED <<a, b, tc, i, err, str, res, dur>>

CallNormalMinutes ==
    /\ pc = "start"
    /\ tc.fam = "none"
    /\ n' = NormalMinutes(a)
    /\ pc' = "NormalMinutes"
    /\ UNCHANGED <<a, b, tc, i, err, str, res, dur>>

CallNormalSeconds ==
    /\ pc = "start"
    /\ tc.fam = "none"
    /\ n' = NormalSeconds(a)
    /\ pc' = "NormalSeconds"
    /\ UNCHANGED <<a, b, tc, i, err, str, res, dur>>

NextNormal ==
    \/ CallNormalYears
    \/ CallNormalMonths
    \/ CallNormalDays
    \/ CallNormalHours
    \/ CallNormalMinutes
    \/ CallNormalSeconds

SpecNormal == InitNormal /\ [][NextNormal]_vars

(***************************************************************************)
(* Properties of the Normal* methods, checked under SpecNormal             *)
(***************************************************************************)
Sign(x) == IF x < 0 THEN -1 ELSE IF x > 0 THEN 1 ELSE 0

\* q is x / d truncated toward zero: q * d lies between 0 and x, less than
\* d away from x.
IsTruncatedQuotient(q, x, d) ==
    IF x >= 0 THEN q >= 0 /\ q * d <= x /\ x - q * d < d
    ELSE q <= 0 /\ q * d >= x /\ q * d - x < d

\* C15 as stated: NormalHours = floor(Seconds / 3600), NormalMinutes =
\* floor((Seconds - NormalHours*3600) / 60) and NormalSeconds =
\* truncate(Seconds) mod 60 (the remainder of the truncating division), for
\* negative Seconds as for positive.
C15_FloorHours ==
    /\ pc = "NormalHours" => n = a.Seconds \div 3600
    /\ pc = "NormalMinutes" =>
            n = (a.Seconds - (a.Seconds \div 3600) * 3600) \div 60
    /\ pc = "NormalSeconds" => n = Sign(a.Seconds) * (Abs(a.Seconds) % 60)

\* C15 amended: NormalHours is Seconds / 3600 truncated toward zero,
\* NormalMinutes is (Seconds - NormalHours*3600) / 60 truncated toward zero
\* and NormalSeconds is truncate(Seconds) % 60 with the sign of Seconds; so
\* hours, minutes and seconds all carry the sign of Seconds, they are the
\* floors only for Seconds >= 0, and hours*3600 + minutes*60 + seconds is
\* Seconds.
C15_TruncatedHours ==
    /\ pc = "NormalHours" => n = Sign(a.Seconds) * (Abs(a.Seconds) \div 3600)
    /\ pc = "NormalMinutes" =>
            n = Sign(a.Seconds) * ((Abs(a.Seconds) % 3600) \div 60)
    /\ pc = "NormalSeconds" => n = Sign(a.Seconds) * (Abs(a.Seconds) % 60)
    /\ pc = "NormalHours" /\ a.Seconds >= 0 => n = a.Seconds \div 3600
    /\ pc = "NormalMinutes" /\ a.Seconds >= 0 => n = (a.Seconds % 3600) \div 60

C15_Witness ==
    /\ pc = "NormalMinutes"
    /\ a.Seconds = -3661
    /\ n = -1

\* C16: NormalYears is Months / 12 truncated toward zero and NormalMonths the
\* remainder with the sign of Months: NormalYears*12 + NormalMonths = Months,
\* |NormalMonths| < 12, the two never of opposite signs, for every int32
\* Months, -2^31 included; NormalDays is Days.
C16_YearsMonths ==
    /\ pc = "NormalYears" => IsTruncatedQuotient(n, a.Months, 12)
    /\ pc = "NormalMonths" =>
            /\ (a.Months - n) % 12 = 0
            /\ -12 < n /\ n < 12
            /\ n = 0 \/ Sign(n) = Sign(a.Months)
    /\ pc = "NormalDays" => n = a.Days
    /\ NormalYears(a) * 12 + NormalMonths(a) = a.Months
    /\ ~(NormalYears(a) > 0 /\ NormalMonths(a) < 0)
    /\ ~(NormalYears(a) < 0 /\ NormalMonths(a) > 0)

C16_Witness ==
    /\ pc = "NormalMonths"
    /\ a.Months = -128
    /\ n = -8
    /\ NormalYears(a) = -10

(***************************************************************************)
(* Overflow of Add and Sub, checked under SpecArith                        *)
(***************************************************************************)
\* The int32 x and the exact number big differ by a multiple of 2^32.
WrapsTo(x, big) ==
    LET d == BigSub(big, ToBig(x))
    IN  d.lo = 0 /\ d.hi % Int32Base = 0

\* C17: Add and Sub report no error; a Months (or Days) field whose exact
\* sum or difference leaves [-2^31, 2^31-1] is that number wrapped modulo
\* 2^32 into int32, one that stays inside is the exact number, and Seconds
\* is the float64 sum or difference whatever the other fields did.
C17_WrapAround ==
    /\ pc = "Add" =>
        /\ err = FALSE
        /\ WrapsTo(i.Months, BigAdd(ToBig(a.Months), ToBig(b.Months)))
        /\ WrapsTo(i.Days, BigAdd(ToBig(a.Days), ToBig(b.Days)))
        /\ FitsInt32(BigAdd(ToBig(a.Months), ToBig(b.Months)))
                => i.Months = a.Months + b.Months
        /\ FitsInt32(BigAdd(ToBig(a.Days), ToBig(b.Days)))
                => i.Days = a.Days + b.Days
        /\ i.Seconds = FAdd(a.Seconds, b.Seconds)
    /\ pc = "Sub" =>
        /\ err = FALSE
        /\ WrapsTo(i.Months, BigSub(ToBig(a.Months), ToBig(b.Months)))
        /\ WrapsTo(i.Days, BigSub(ToBig(a.Days), ToBig(b.Days)))
        /\ FitsInt32(BigSub(ToBig(a.Months), ToBig(b.Months)))
                => i.Months = a.Months - b.Months
        /\ FitsInt32(BigSub(ToBig(a.Days), ToBig(b.Days)))
                => i.Days = a.Days - b.Days
        /\ i.Seconds = FSub(a.Seconds, b.Seconds)

C17_Witness ==
    /\ pc = "Add"
    /\ a.Months = MaxInt32 /\ b.Months = 1
    /\ a.Days = 0 /\ b.Days = 1
    /\ i.Months = MinInt32
    /\ i.Days = 1
    /\ i.Seconds = FAdd(a.Seconds, b.Seconds)
    /\ err = FALSE

(***************************************************************************)
(* Mul and Div.  tc.arg = <<p, q>> is the scalar, the float64 nearest to   *)
(* p/q (q = 1: the whole number p).                                        *)
(***************************************************************************)
ScalarVector(p, q) == [fam |-> "scalar", arg |-> <<p, q>>]

Scalar(v) == Ratio(v.arg[1], v.arg[2])

ScaleBound == 1

ScaleMonths == ((-ScaleBound)..ScaleBound) \cup {MinInt32, -55, 4, 49, 55, MaxInt32}
ScaleDays == {-3, 0, 2, 6, MaxInt32}
ScaleSeconds == {FromInt(v) : v \in {-8, 0, 3}} \cup {Ratio(1, 10)}

ScaleInputs ==
    {Interval(mo, d, sec) : mo \in ScaleMonths, d \in ScaleDays, sec \in ScaleSeconds}

\* 2, -2, 1.05, 0 of TestMul; 2, 1.1 of TestDiv; -1 of SubFrom; and others.
Scalars ==
    {ScalarVector(p, 1) : p \in ((-ScaleBound)..ScaleBound) \cup {-2, 2, 3, 1000}}
        \cup {ScalarVector(105, 100), ScalarVector(11, 10), ScalarVector(-11, 10),
              ScalarVector(1, 49), ScalarVector(3, 11), ScalarVector(1, 3)}

InitScale ==
    /\ pc = "start"
    /\ Returned
    /\ tc \in Scalars
    /\ a \in ScaleInputs
    /\ b = ZeroFloatInterval

\* i := a.Mul(k)
CallMul ==
    /\ pc = "start"
    /\ tc.fam = "scalar"
    /\ \E r \in Mul(a, Scalar(tc)) :
          /\ i' = r
          /\ a' = ValueReceiver(a, r)
    /\ pc' = "Mul"
    /\ UNCHANGED <<b, tc, err, str, res, n, dur>>

\* i := a.Div(k), k # 0 (a.Div(0) has Seconds +Inf, -Inf or NaN, which the
\* float64 values here do not include)
CallDiv ==
    /\ pc = "start"
    /\ tc.fam = "scalar"
    /\ tc.arg[1] # 0
    /\ \E r \in Div(a, Scalar(tc)) :
          /\ i' = r
          /\ a' = ValueReceiver(a, r)
    /\ pc' = "Div"
    /\ UNCHANGED <<b, tc, err, str, res, n, dur>>

NextScale == CallMul \/ CallDiv

SpecScale == InitScale /\ [][NextScale]_vars

(***************************************************************************)
(* Properties of Mul and Div, checked under SpecScale                      *)
(***************************************************************************)
\* The magnitude of x * p / q truncated toward zero (q > 0), exactly.
ScaledMag(x, p, q) == BnDivSmall(BnMulSmall(BnFromAbs(x), Abs(p)), q).q

\* x * p / q truncated toward zero, for a magnitude below 2^31 - 1.
Scaled(x, p, q) == Sign(x) * Sign(p) * BnToNat(ScaledMag(x, p, q))

\* x * p / q truncated is an int32 with room for one on either side.
ScaledFits(x, p, q) == BnCmp(ScaledMag(x, p, q), BnFromNat(MaxInt32 - 1)) < 0

\* C18 as stated, the scalar k being the ratio p/q: a.Mul(k) has Months =
\* trunc(a.Months*k), Days = trunc(a.Days*k), Seconds = a.Seconds*k; for
\* k # 0 a.Div(k) has Months = trunc(a.Months/k), Days = trunc(a.Days/k),
\* Seconds = a.Seconds/k; results within int32.
C18_ScaleTruncates ==
    LET p == tc.arg[1]
        q == tc.arg[2]
    IN  /\ (pc = "Mul" /\ ScaledFits(a.Months, p, q) /\ ScaledFits(a.Days, p, q)) =>
            /\ i.Months = Scaled(a.Months, p, q)
            /\ i.Days = Scaled(a.Days, p, q)
            /\ i.Seconds = FMul(a.Seconds, Scalar(tc))
        /\ (pc = "Div" /\ ScaledFits(a.Months, q, Abs(p)) /\ ScaledFits(a.Days, q, Abs(p))) =>
            /\ i.Months = Sign(p) * Scaled(a.Months, q, Abs(p))
            /\ i.Days = Sign(p) * Scaled(a.Days, q, Abs(p))
            /\ i.Seconds = FDiv(a.Seconds, Scalar(tc))

\* x is y or one off it, for y inside int32 with room on either side.
Near(x, y) == x \in {y - 1, y, y + 1}

\* C18 amended: for a whole-number scalar k (results within int32) a.Mul(k)
\* has Months = a.Months*k, Days = a.Days*k, and for k # 0 a.Div(k) has
\* Months = trunc(a.Months/k), Days = trunc(a.Days/k); a.Mul(0) is the zero
\* Interval and a.Mul(-1) negates every field.  For a scalar that is a ratio
\* p/q the integer fields are the truncations of the float64 product or
\* quotient, which are the truncation of the exact one or one off it.
\* Seconds is the float64 product or quotient.
C18_ScaleWhole ==
    LET p == tc.arg[1]
        q == tc.arg[2]
    IN  /\ (pc = "Mul" /\ ScaledFits(a.Months, p, q) /\ ScaledFits(a.Days, p, q)) =>
            /\ q = 1 => i.Months = a.Months * p /\ i.Days = a.Days * p
            /\ Near(i.Months, Scaled(a.Months, p, q))
            /\ Near(i.Days, Scaled(a.Days, p, q))
            /\ i.Seconds = FMul(a.Seconds, Scalar(tc))
            /\ p = 0 => i = ZeroFloatInterval
            /\ (p = -1 /\ q = 1) =>
                    /\ i.Months = -a.Months /\ i.Days = -a.Days
                    /\ i.Seconds = FNeg(a.Seconds)
        /\ (pc = "Div" /\ ScaledFits(a.Months, q, Abs(p)) /\ ScaledFits(a.Days, q, Abs(p))) =>
            /\ Near(i.Months, Sign(p) * Scaled(a.Months, q, Abs(p)))
            /\ Near(i.Days, Sign(p) * Scaled(a.Days, q, Abs(p)))
            /\ q = 1 =>
                    /\ IsTruncatedQuotient(Sign(p) * i.Months, a.Months, Abs(p))
                    /\ IsTruncatedQuotient(Sign(p) * i.Days, a.Days, Abs(p))
            /\ i.Seconds = FDiv(a.Seconds, Scalar(tc))

C18_Witness ==
    /\ pc = "Div"
    /\ tc = ScalarVector(2, 1)
    /\ a.Months = 55 /\ a.Days = -3 /\ a.Seconds = FromInt(3)
    /\ i.Months = 27 /\ i.Days = -1 /\ i.Seconds = Ratio(3, 2)

(***************************************************************************)
(* Duration.  tc.arg = <<daysInMonth, secondsInDay>>; dur is the           *)
(* time.Duration returned, a number of nanoseconds.                        *)
(***************************************************************************)
DurationVector(daysInMonth, secondsInDay) ==
    [fam |-> "duration", arg |-> <<daysInMonth, secondsInDay>>]

\* A whole number of any size as a float64 (exact below 2^53).
FromWhole(neg, x) == FRound(neg, x, 0)

\* floor(2^62 / 10^9) = 4611686018: the last whole number of seconds whose
\* nanoseconds are below 2^62.
SecondsBelowTwoTo62 == BnDivMod(BnShl(<<1>>, 62), BnFromNat(1000000000)).q

DurationBound == 1

DurationMonths == ((-DurationBound)..DurationBound) \cup {MinInt32, -10, 10, 20, MaxInt32}
DurationDays == {-5, 0, 10, MaxInt32}
DurationSeconds ==
    {FromInt(v) : v \in ((-DurationBound)..DurationBound) \cup {86400}}
        \cup {FromWhole(sg, x) : sg \in BOOLEAN,
                  x \in {SecondsBelowTwoTo62, BnAdd(SecondsBelowTwoTo62, <<1>>)}}
        \cup {FromWhole(FALSE, BnMulSmall(BnFromNat(1000000000), 10))}

DurationInputs ==
    {Interval(mo, d, sec) : mo \in DurationMonths, d \in DurationDays,
                            sec \in DurationSeconds}

DurationVectors ==
    {DurationVector(dim, sid) : dim \in {0, 30, 255}, sid \in {0, 84000, 86400, MaxInt32}}

InitDuration ==
    /\ pc = "start"
    /\ Returned
    /\ tc \in DurationVectors
    /\ a \in DurationInputs
    /\ b = ZeroFloatInterval

\* dur := a.Duration(daysInMonth, secondsInDay)
CallDuration ==
    /\ pc = "start"
    /\ tc.fam = "duration"
    /\ dur' \in Duration(a, tc.arg[1], tc.arg[2])
    /\ pc' = "Duration"
    /\ UNCHANGED <<a, b, tc, i, err, str, res, n>>

NextDuration == CallDuration

SpecDuration == InitDuration /\ [][NextDuration]_vars

(***************************************************************************)
(* Properties of Duration, checked under SpecDuration                      *)
(***************************************************************************)
\* The float64 x as an exact signed number, for whole x.
WholeValue(x) == Signed(x.neg, FTruncMag(x))

\* ((Months*daysInMonth + Days)*secondsInDay + Seconds) seconds, in
\* nanoseconds, exactly.
ExactNanos(x, daysInMonth, secondsInDay) ==
    SMul(SAdd(SMul(SAdd(SMul(Int64(x.Months), Int64(daysInMonth)), Int64(x.Days)),
                   Int64(secondsInDay)),
              WholeValue(x.Seconds)),
         Int64(1000000000))

\* C13 as stated: for whole-number Seconds, whenever the exact number of
\* nanoseconds fits in int64, Duration returns exactly
\* ((Months*daysInMonth + Days)*secondsInDay + Seconds) seconds; with
\* daysInMonth = 0 and secondsInDay = 0 that is Seconds alone, and 0 for
\* the zero Interval.
C13_DurationExact ==
    (pc = "Duration" /\ FIsWhole(a.Seconds)
            /\ FitsInt64(ExactNanos(a, tc.arg[1], tc.arg[2]))) =>
        /\ dur = ExactNanos(a, tc.arg[1], tc.arg[2])
        /\ (tc.arg[1] = 0 /\ tc.arg[2] = 0) =>
                dur = SMul(WholeValue(a.Seconds), Int64(1000000000))
        /\ a = ZeroFloatInterval => dur = Int64Zero

\* |Seconds| * 10^9 is at most 2^62 (|Seconds| <= 4611686018, some 146
\* years): float64 holds every such number of nanoseconds exactly.
SecondsExactInNanos(x) == BnCmp(FTruncMag(x), SecondsBelowTwoTo62) <= 0

\* C13 amended: the same, for whole-number Seconds of magnitude at most
\* 4611686018 (|Seconds| * 10^9 <= 2^62).
C13_DurationExactBelowTwoTo62 ==
    (pc = "Duration" /\ FIsWhole(a.Seconds) /\ SecondsExactInNanos(a.Seconds)
            /\ FitsInt64(ExactNanos(a, tc.arg[1], tc.arg[2]))) =>
        /\ dur = ExactNanos(a, tc.arg[1], tc.arg[2])
        /\ (tc.arg[1] = 0 /\ tc.arg[2] = 0) =>
                dur = SMul(WholeValue(a.Seconds), Int64(1000000000))
        /\ a = ZeroFloatInterval => dur = Int64Zero

C13_Witness ==
    /\ pc = "Duration"
    /\ a = Interval(10, 10, FromInt(1))
    /\ tc = DurationVector(30, 86400)
    /\ dur = SMul(Int64(26784001), Int64(1000000000))

(***************************************************************************)
(* The order as a whole, checked under SpecOrder                           *)
(***************************************************************************)
Count(flags) == Cardinality({k \in 1..Len(flags) : flags[k]})

\* C19: on Intervals with finite Seconds LessOrEqual is reflexive,
\* antisymmetric (a <= b and b <= a make a Equal b) and transitive (a <= b
\* and b <= c make a <= c), and of Less(a,b), Greater(a,b), Equal(a,b) and
\* not Comparable(a,b) exactly one holds.
C19_PartialOrder ==
    /\ LessOrEqual(a, a)
    /\ (pc = "LessOrEqual" /\ a = b) => res
    /\ (pc = "LessOrEqual" /\ res /\ LessOrEqual(b, a)) =>
            Equal(a, b) /\ SameFields(a, b)
    /\ (pc = "LessOrEqual" /\ res) =>
            \A c \in OrderInputs : LessOrEqual(b, c) => LessOrEqual(a, c)
    /\ Count(<<Less(a, b), Greater(a, b), Equal(a, b), ~Comparable(a, b)>>) = 1
    /\ pc = "Less" => (res => ~Greater(a, b) /\ ~Equal(a, b) /\ Comparable(a, b))
    /\ pc = "Greater" => (res => ~Less(a, b) /\ ~Equal(a, b) /\ Comparable(a, b))
    /\ pc = "Equal" => (res => ~Less(a, b) /\ ~Greater(a, b) /\ Comparable(a, b))
    /\ pc = "Comparable" => (~res => ~Less(a, b) /\ ~Greater(a, b) /\ ~Equal(a, b))

C19_Witness ==
    /\ pc = "LessOrEqual"
    /\ res
    /\ ~SameFields(a, b)
    /\ \E c \in OrderInputs :
          ~SameFields(b, c) /\ LessOrEqual(b, c) /\ LessOrEqual(a, c)

(***************************************************************************)
(* Calls one after another on the same operands: after a call returns      *)
(* (Return) the caller makes the next one; what earlier calls returned     *)
(* stays in i, str, res, n, dur.                                           *)
(***************************************************************************)
FrameWhole == {Interval(-14, 3, -14706), Interval(1, 2, 3), ZeroInterval}

FrameFloat ==
    {Interval(-14, 3, FromInt(-14706)), Interval(1, 2, FromInt(3)),
     Interval(MaxInt32, 0, Ratio(1, 10))}

FrameVectors ==
    {ScalarVector(-2, 1), ScalarVector(11, 10), DurationVector(30, 86400)}

InitFrame ==
    /\ pc = "start"
    /\ Returned
    /\ \/ tc = NoVector /\ a \in FrameWhole /\ b \in FrameWhole
       \/ tc \in FrameVectors /\ a \in FrameFloat /\ b \in FrameFloat

Return ==
    /\ pc # "start"
    /\ pc' = "start"
    /\ UNCHANGED <<a, b, tc, i, err, str, res, n, dur>>

NextFrame ==
    \/ CallString
    \/ NextOrder
    \/ NextNormal
    \/ CallAdd
    \/ CallSub
    \/ CallMul
    \/ CallDiv
    \/ CallDuration
    \/ Return

SpecFrame == InitFrame /\ [][NextFrame]_vars

C12_WitnessFloat ==
    /\ pc = "Add"
    /\ a = Interval(1, 2, FromInt(3))
    /\ b = Interval(-14, 3, FromInt(-14706))
    /\ i = Interval(-13, 5, FromInt(-14703))
    /\ dur # Int64Zero

=============================================================================
